---- MODULE Spec2Model ----
(***************************************************************************)
(* pydtm - Python (Euro)DOCSIS Traffic Meter (src/assets/pydtm.py).        *)
(*                                                                         *)
(* The model follows main()'s endless scan loop statement by statement:    *)
(* for every channel tune(), start_demuxer(), the poll/read window,        *)
(* stop_demuxer() and the append of the metric point; then the emission    *)
(* of the batch and the inter-cycle sleep.                                 *)
(*                                                                         *)
(* Time is counted in ticks, TicksPerSec ticks to the second.  One clock   *)
(* `now` stands for both timeit.default_timer() and datetime.now(): both   *)
(* advance together and never go backwards.  Time passes only in the calls *)
(* that block: time.sleep(), poll() and write_points().                    *)
(*                                                                         *)
(* fcntl.ioctl() either returns 0, returns a non-zero value, or raises     *)
(* OSError (what Python does when the system call fails).  The code tests  *)
(* the returned value only, so a raised OSError leaves main().             *)
(*                                                                         *)
(* Three specifications:                                                   *)
(*   Spec         the scan loop, from the entry of `while True`;           *)
(*   StartupSpec  main() up to that entry: build_configuration() on a      *)
(*                command line and an environment given as texts, the      *)
(*                database connection and the opening of the devices;      *)
(*   TuneSpec     one call of tune() with a record of its ioctls.          *)
(***************************************************************************)
EXTENDS Integers, Sequences, FiniteSets, TLC

\* ---------------------------------------------------------------- bounds
\* ticks per second: the resolution of the modelled clock
TicksPerSec == 2
\* the clock stops advancing here
MaxTime == 5
\* configuration values tried: --step, --interval, --locktime, channels
MaxStep == 1
MaxInterval == 2
MaxLockTime == 1
MaxFrequencies == 2
\* bytes returned by one dvrfd.read() are 1..MaxChunk, count is capped
MaxChunk == 1
MaxCount == 2
\* write_points() takes 0..MaxEmitTime ticks
MaxEmitTime == 1
\* channel lists tried at startup have 1..MaxItems items
MaxItems == 2

\* ------------------------------------------------------------- constants
\* timedelta.seconds is the seconds part of a timedelta: 0 <= seconds < 86400
SecondsPerDay == 86400
\* FE_HAS_LOCK, the bit tune() tests in the frontend status
FE_HAS_LOCK == 16
\* the modulations of the DVB API
QAM_256 == 5
QAM_64 == 3
\* the commands of a FE_SET_PROPERTY batch and the values tune() gives them
DTV_DELIVERY_SYSTEM == 17
DTV_FREQUENCY == 3
DTV_INNER_FEC == 9
DTV_INVERSION == 6
DTV_MODULATION == 4
DTV_SYMBOL_RATE == 8
DTV_TUNE == 1
FEC_AUTO == 9
INVERSION_OFF == 0
SYS_DVBC_ANNEX_AC == 1

VARIABLES
    config,             \* the resolved configuration (build_configuration)
    pc,                 \* the statement main() is at
    now,                \* the clock, in ticks
    num,                \* 1-based index of the channel being scanned
    count,              \* bytes read in the current window
    data_bound,         \* whether the local `data` was ever assigned
    start_time,         \* timer at the start of the window
    end_time,           \* timer after the last read
    elapsed,            \* timer at loop exit minus start_time
    total_start_time,   \* clock at the start of the cycle
    total_time_diff,    \* clock after the channel loop minus total_start_time
    sleeptime,          \* seconds main() decided to sleep after the cycle
    influx_messages,    \* the batch being built
    filtering,          \* the demux device: a PES filter is running
    exception,          \* the exception that left main(), "none" while running
    ops,                \* device operations of the current cycle, in order
    emitted,            \* the calls of write_points this cycle: batch, success
    prev_start_time,    \* total_start_time of the previous cycle, -1 if none
    cycle_end_time,     \* clock when the last write_points returned
    window_bytes,       \* bytes dvrfd.read() returned since this channel began
    argv,               \* the command line: the text of each option given
    environ,            \* os.environ: the text of each PYDTM_ variable set
    sys_exit,           \* the exit() that ended the process: status, line
    devices_open,       \* the frontend, demux and dvr devices were opened
    warned,             \* build_configuration() warned about the step
    tunable,            \* the Tunable tune() is called with
    fe_calls            \* the ioctls of the last tune() that kept a record

vars == <<config, pc, now, num, count, data_bound, start_time, end_time,
          elapsed, total_start_time, total_time_diff, sleeptime,
          influx_messages, filtering, exception, ops, emitted,
          prev_start_time, cycle_end_time, window_bytes,
          argv, environ, sys_exit, devices_open, warned, tunable, fe_calls>>

\* what build_configuration() and the opening of the devices work on
startup_vars == <<argv, environ, sys_exit, devices_open, warned>>

\* what a recorded tune() works on
tune_vars == <<tunable, fe_calls>>

\* what the scan loop works on, config, pc and exception apart
loop_vars == <<now, num, count, data_bound, start_time, end_time, elapsed,
               total_start_time, total_time_diff, sleeptime, influx_messages,
               filtering, ops, emitted, prev_start_time, cycle_end_time,
               window_bytes>>

\* --------------------------------------------------------- configuration
\* frequencies_count = len(frequency_list(config.frequencies))
frequencies_count == config.frequencies

\* timeout = config.step / frequencies_count, in ticks
timeout == (config.step * TicksPerSec) \div frequencies_count

\* line 507: poll(timeout * 1000), the longest one poll() blocks, in ticks
poll_timeout == timeout

\* the configurations tried; the division above is exact for each of them
Configurations ==
    { c \in [step : 1..MaxStep, interval : 1..MaxInterval,
             locktime : 0..MaxLockTime, frequencies : 1..MaxFrequencies] :
        (c.step * TicksPerSec) % c.frequencies = 0 }

\* ------------------------------------------------------------ the device
\* what fcntl.ioctl() can do
IoctlOutcomes == {"zero", "nonzero", "OSError"}

\* frontend status words: no bits, lock only, everything but lock, all bits
FeStatusValues == {0, 16, 15, 31}

HasLock(status) == (status \div FE_HAS_LOCK) % 2 = 1

\* a tune() that does not look at the lock bit
tune_lock_unchecked(set_property, read_status, status) ==
    IF set_property = "zero" /\ read_status = "zero" THEN 0 ELSE -1

\* tune(): 0 when the batch was accepted, the status was read and it has the
\* lock bit, -1 otherwise
tune(set_property, read_status, status) ==
    IF set_property = "zero"
    THEN IF read_status = "zero"
         THEN IF ~HasLock(status) THEN -1 ELSE 0
         ELSE -1
    ELSE -1

\* an ioctl of tune() raised: FE_SET_PROPERTY, or FE_READ_STATUS after it
tune_raises(set_property, read_status) ==
    \/ set_property = "OSError"
    \/ set_property = "zero" /\ read_status = "OSError"

\* time.sleep(locktime) runs only after an accepted batch
tune_duration(set_property) ==
    IF set_property = "zero" THEN config.locktime * TicksPerSec ELSE 0

\* lines 352-376: the seven commands of the batch, prop[0] to prop[6]; the
\* data of DTV_TUNE is left as ctypes made it, 0
dtv_props(t) ==
    <<[cmd |-> DTV_DELIVERY_SYSTEM, data |-> SYS_DVBC_ANNEX_AC],
      [cmd |-> DTV_MODULATION, data |-> t.modulation],
      [cmd |-> DTV_SYMBOL_RATE, data |-> 6952000],
      [cmd |-> DTV_INVERSION, data |-> INVERSION_OFF],
      [cmd |-> DTV_INNER_FEC, data |-> FEC_AUTO],
      [cmd |-> DTV_FREQUENCY, data |-> t.frequency * 1000000],
      [cmd |-> DTV_TUNE, data |-> 0]>>

\* lines 378-384: the ioctls tune() issues on the frontend, each with the
\* time it is issued at, what it returned and the status it filled in:
\* FE_SET_PROPERTY, and after an accepted batch and time.sleep(locktime),
\* FE_READ_STATUS
tune_calls(t, set_property, read_status, status) ==
    <<[request |-> "FE_SET_PROPERTY", at |-> now, props |-> dtv_props(t),
       result |-> set_property, status |-> 0]>>
    \o IF set_property = "zero"
       THEN <<[request |-> "FE_READ_STATUS",
               at |-> now + tune_duration(set_property), props |-> <<>>,
               result |-> read_status,
               status |-> IF read_status = "zero" THEN status ELSE 0]>>
       ELSE <<>>

\* start_demuxer() / stop_demuxer(): 0 when the ioctl returned 0, else -1
start_demuxer(set_pes_filter) == IF set_pes_filter # "zero" THEN -1 ELSE 0

stop_demuxer(dmx_stop) == IF dmx_stop # "zero" THEN -1 ELSE 0

\* an entry of the log of device operations
Op(name, line, ok) == [op |-> name, num |-> num, line |-> line, ok |-> ok]

\* ----------------------------------------------------------------- texts
\* a text (str) is a sequence of characters
Digits == <<"0", "1", "2", "3", "4", "5", "6", "7", "8", "9">>

IsDigit(c) == \E v \in DOMAIN Digits : Digits[v] = c

DigitValue(c) == (CHOOSE v \in DOMAIN Digits : Digits[v] = c) - 1

\* int(text) raises ValueError unless the text is a decimal numeral (signs,
\* blanks and underscores are not among the characters tried)
int_raises(text) == text = <<>> \/ \E i \in DOMAIN text : ~IsDigit(text[i])

\* int(text) of a decimal numeral
RECURSIVE int(_)
int(text) ==
    IF text = <<>>
    THEN 0
    ELSE 10 * int(SubSeq(text, 1, Len(text) - 1)) + DigitValue(text[Len(text)])

\* str(n) of a natural number
RECURSIVE str(_)
str(n) ==
    IF n < 10
    THEN <<Digits[n + 1]>>
    ELSE Append(str(n \div 10), Digits[(n % 10) + 1])

\* text.find(c): the 0-based index of the first c, -1 when there is none
find(text, c) ==
    IF \E i \in DOMAIN text : text[i] = c
    THEN (CHOOSE i \in DOMAIN text :
              text[i] = c /\ \A j \in 1..(i - 1) : text[j] # c) - 1
    ELSE -1

\* text.split(c)
RECURSIVE split(_, _)
split(text, c) ==
    IF find(text, c) = -1
    THEN <<text>>
    ELSE <<SubSeq(text, 1, find(text, c))>>
            \o split(SubSeq(text, find(text, c) + 2, Len(text)), c)

\* c.join(texts)
RECURSIVE join(_, _)
join(texts, c) ==
    IF Len(texts) = 1
    THEN texts[1]
    ELSE texts[1] \o <<c>> \o join(Tail(texts), c)

\* ------------------------------------------------- build_configuration()
\* the options parsed with type=int, each with its environment variable
IntOptions == {"adapter", "locktime", "step", "tuner", "interval"}

EnvVarOf(option) ==
    CASE option = "adapter" -> "PYDTM_ADAPTER"
      [] option = "locktime" -> "PYDTM_LOCKTIME"
      [] option = "step" -> "PYDTM_STEP"
      [] option = "tuner" -> "PYDTM_TUNER"
      [] option = "interval" -> "PYDTM_INTERVAL"
      [] option = "frequencies" -> "PYDTM_FREQUENCIES"

Options == IntOptions \cup {"frequencies"}

EnvVars == { EnvVarOf(option) : option \in Options }

\* the default= of add_argument, --frequencies being "114:256"
Defaults ==
    [adapter |-> 0, locktime |-> 1, step |-> 60, tuner |-> 0,
     interval |-> 300,
     frequencies |-> <<"1", "1", "4", ":", "2", "5", "6">>]

\* parse_args() ends the process (parser.error) when the text of a
\* type=int option is no integer
parse_args_fails ==
    \E o \in IntOptions \cap DOMAIN argv : int_raises(argv[o])

\* the namespace parse_args() returns
parse_args ==
    [o \in Options |->
        IF o \notin DOMAIN argv THEN Defaults[o]
        ELSE IF o = "frequencies" THEN argv[o]
        ELSE int(argv[o])]

\* lines 225-229
set_from_env(envvar, default) ==
    IF envvar \in DOMAIN environ THEN environ[envvar] ELSE default

\* try: int(set_from_env(envvar, value)) except ValueError: the value stays
int_from_env(envvar, value) ==
    IF envvar \in DOMAIN environ /\ ~int_raises(environ[envvar])
    THEN int(environ[envvar])
    ELSE value

\* an eval_envvars() that leaves the namespace as parse_args() returned it
eval_envvars_skipped(args) == args

\* lines 233-283: the namespace after eval_envvars(args)
eval_envvars(args) ==
    [o \in Options |->
        IF o = "frequencies" THEN set_from_env(EnvVarOf(o), args[o])
        ELSE int_from_env(EnvVarOf(o), args[o])]

Tunable(frequency, modulation) ==
    [frequency |-> frequency, modulation |-> modulation]

\* lines 292-310, one pass of the loop of frequency_list(): the Tunable
\* appended, or how the pass ends the process: exit(1), or the ValueError
\* of unpacking a split(":") that has not two parts
frequency_item(item) ==
    LET colon == find(item, ":") > 0
        parts == split(item, ":")
    IN  IF colon /\ Len(parts) # 2
        THEN [end |-> "ValueError", line |-> 293, tunable |-> Tunable(0, 0)]
        ELSE LET freq == IF colon THEN parts[1] ELSE item
                 mod == IF colon THEN parts[2] ELSE <<"2", "5", "6">>
             IN  IF int_raises(freq)
                 THEN [end |-> "exit", line |-> 299, tunable |-> Tunable(0, 0)]
                 ELSE IF mod = <<"2", "5", "6">>
                 THEN [end |-> "none", line |-> 305,
                       tunable |-> Tunable(int(freq), QAM_256)]
                 ELSE IF mod = <<"6", "4">>
                 THEN [end |-> "none", line |-> 307,
                       tunable |-> Tunable(int(freq), QAM_64)]
                 ELSE [end |-> "exit", line |-> 310, tunable |-> Tunable(0, 0)]

\* lines 286-311: the list of Tunables, or the end the first bad item makes
frequency_list(frequencies) ==
    LET items == split(frequencies, ",")
        passes == [i \in DOMAIN items |-> frequency_item(items[i])]
        bad == { i \in DOMAIN items : passes[i].end # "none" }
    IN  IF bad = {}
        THEN [end |-> "none", line |-> 311,
              f_list |-> [i \in DOMAIN items |-> passes[i].tunable]]
        ELSE LET first == CHOOSE i \in bad : \A j \in bad : i <= j
             IN  [end |-> passes[first].end, line |-> passes[first].line,
                  f_list |-> <<>>]

\* lines 330: args.step / len(frequencies) < 1
step_too_short(step, frequencies) == step < Len(frequencies)

\* ------------------------------------------------------------------ Init
\* the scan loop's variables before the first cycle; -1 stands for a time
\* that was never taken
LoopVarsInit ==
    /\ now = 0
    /\ num = 0
    /\ count = 0
    /\ data_bound = FALSE
    /\ start_time = 0
    /\ end_time = 0
    /\ elapsed = 0
    /\ total_start_time = -1
    /\ total_time_diff = 0
    /\ sleeptime = 0
    /\ influx_messages = <<>>
    /\ filtering = FALSE
    /\ ops = <<>>
    /\ emitted = <<>>
    /\ prev_start_time = -1
    /\ cycle_end_time = -1
    /\ window_bytes = 0

\* the item of a channel list that gives the Tunable t, the modulation 256
\* being the one of an item without modulation
ChannelText(t) ==
    IF t.modulation = QAM_256
    THEN str(t.frequency)
    ELSE join(<<str(t.frequency), <<"6", "4">>>>, ":")

\* a command line that gives the configuration c: --step, --interval,
\* --locktime, and --frequencies with c.frequencies times the channel t
ArgvFor(c, t) ==
    [o \in {"step", "interval", "locktime", "frequencies"} |->
        CASE o = "step" -> str(c.step)
          [] o = "interval" -> str(c.interval)
          [] o = "locktime" -> str(c.locktime)
          [] o = "frequencies" ->
                join([i \in 1..c.frequencies |-> ChannelText(t)], ",")]

\* a mapping of no name at all
NoneGiven == [n \in {} |-> <<>>]

\* no PYDTM_ variable is set
NoEnviron == NoneGiven

\* no exit() was called
Running == [status |-> -1, line |-> 0]

\* the state when main() enters `while True` (line 480), started with the
\* command line ArgvFor(config, tunable)
Init ==
    /\ config \in Configurations
    /\ pc = "cycle_start"
    /\ exception = "none"
    /\ LoopVarsInit
    /\ tunable = Tunable(114, QAM_256)
    /\ argv = ArgvFor(config, tunable)
    /\ environ = NoEnviron
    /\ sys_exit = Running
    /\ devices_open = TRUE
    /\ warned = (config.step < config.frequencies)
    /\ fe_calls = <<>>

\* main() is left by an exception nothing catches
Raise(exc) ==
    /\ pc' = "terminated"
    /\ exception' = exc

\* the `break` and fall-through targets of the channel loop

\* a slip: `continue` where the code has `break`
AfterTune_continue(rc) == IF rc # 0 THEN "for" ELSE "start_demuxer"

\* line 496, first operand: tune(...) != 0 breaks out of the for loop
AfterTune(rc) == IF rc # 0 THEN "aggregate" ELSE "start_demuxer"

\* a slip: the result of start_demuxer() is not looked at
AfterStartDemuxer_unchecked(rc) == "while"

\* line 496, second operand: start_demuxer(dmxfd) != 0 breaks as well
AfterStartDemuxer(rc) == IF rc # 0 THEN "aggregate" ELSE "while"

\* a slip: the result of the final stop_demuxer() is not looked at, as on
\* line 511
AfterStopDemuxer_unchecked(rc) == "append"

\* a failed stop that skips the channel and goes on to the next one
AfterStopDemuxer_continue(rc) == IF rc # 0 THEN "for" ELSE "append"

\* lines 523-524: stop_demuxer(dmxfd) != 0 breaks, else the point is appended
AfterStopDemuxer(rc) == IF rc # 0 THEN "aggregate" ELSE "append"

\* line 502: the loop condition
WindowOpen == (end_time - start_time) < timeout

\* --------------------------------------------------------------- actions
\* a batch that is carried over from the cycle before
new_influx_messages_kept == influx_messages

\* line 487: influx_messages = [], the batch a cycle starts with
new_influx_messages == <<>>

\* lines 482-490: a new cycle begins
CycleStart ==
    /\ pc = "cycle_start"
    /\ total_start_time' = now
    /\ prev_start_time' = total_start_time
    /\ influx_messages' = new_influx_messages
    /\ num' = 0
    /\ ops' = <<>>
    /\ emitted' = <<>>
    /\ pc' = "for"
    /\ UNCHANGED <<config, now, count, data_bound, start_time, end_time,
                   elapsed, total_time_diff, sleeptime, filtering, exception,
                   cycle_end_time>>
    /\ UNCHANGED window_bytes
    /\ UNCHANGED <<startup_vars, tune_vars>>

\* a counter that goes on from the channel before
new_count_kept == count

\* line 494: count = 0, the counter a channel attempt starts with
new_count == 0

\* lines 492-495: the next channel of the list, or the end of the list
ForNext ==
    /\ pc = "for"
    /\ IF num < frequencies_count
       THEN /\ count' = new_count
            /\ window_bytes' = 0
            /\ num' = num + 1
            /\ pc' = "tune"
       ELSE /\ pc' = "aggregate"
            /\ UNCHANGED <<count, num, window_bytes>>
    /\ UNCHANGED <<config, now, data_bound, start_time, end_time, elapsed,
                   total_start_time, total_time_diff, sleeptime,
                   influx_messages, filtering, exception, ops, emitted,
                   prev_start_time, cycle_end_time>>
    /\ UNCHANGED <<startup_vars, tune_vars>>

\* line 496 and lines 342-395: tune() with the outcomes of its two ioctls;
\* time.sleep(locktime) is where the time goes
TuneCall(set_property, read_status, status) ==
    /\ now + tune_duration(set_property) <= MaxTime
    /\ now' = now + tune_duration(set_property)
    /\ IF tune_raises(set_property, read_status)
       THEN /\ Raise("OSError")
            /\ ops' = Append(ops, Op("tune", 496, FALSE))
       ELSE /\ pc' = AfterTune(tune(set_property, read_status, status))
            /\ ops' = Append(ops, Op("tune", 496,
                          tune(set_property, read_status, status) = 0))
            /\ UNCHANGED exception
    /\ UNCHANGED <<config, num, count, data_bound, start_time, end_time,
                   elapsed, total_start_time, total_time_diff, sleeptime,
                   influx_messages, filtering, emitted, prev_start_time,
                   cycle_end_time, window_bytes, startup_vars, tunable>>

\* tune() in the scan loop, where no record of its ioctls is kept
Tune ==
    /\ pc = "tune"
    /\ \E set_property \in IoctlOutcomes, read_status \in IoctlOutcomes,
          status \in FeStatusValues :
        TuneCall(set_property, read_status, status)
    /\ UNCHANGED fe_calls

\* line 496 and lines 398-413: start_demuxer(dmxfd); on success lines 500-501
\* take the window's start time
StartDemuxer ==
    /\ pc = "start_demuxer"
    /\ \E set_pes_filter \in IoctlOutcomes :
        IF set_pes_filter = "OSError"
        THEN /\ Raise("OSError")
             /\ ops' = Append(ops, Op("start_demuxer", 496, FALSE))
             /\ UNCHANGED <<filtering, start_time, end_time>>
        ELSE /\ pc' = AfterStartDemuxer(start_demuxer(set_pes_filter))
             /\ UNCHANGED exception
             /\ filtering' = IF set_pes_filter = "zero" THEN TRUE ELSE filtering
             /\ IF AfterStartDemuxer(start_demuxer(set_pes_filter)) = "while"
                THEN /\ start_time' = now
                     /\ end_time' = now
                     /\ ops' = ops \o
                           <<Op("start_demuxer", 496, set_pes_filter = "zero"),
                             Op("meter", 500, TRUE)>>
                ELSE /\ ops' = Append(ops,
                            Op("start_demuxer", 496, set_pes_filter = "zero"))
                     /\ UNCHANGED <<start_time, end_time>>
    /\ UNCHANGED <<config, now, num, count, data_bound, elapsed,
                   total_start_time, total_time_diff, sleeptime,
                   influx_messages, emitted, prev_start_time, cycle_end_time>>
    /\ UNCHANGED window_bytes
    /\ UNCHANGED <<startup_vars, tune_vars>>

\* line 502 and line 520: the loop test; when it fails the final time is taken
While ==
    /\ pc = "while"
    /\ IF WindowOpen
       THEN /\ pc' = "poll"
            /\ UNCHANGED elapsed
       ELSE /\ pc' = "stop_demuxer"
            /\ elapsed' = now - start_time
    /\ UNCHANGED <<config, now, num, count, data_bound, start_time, end_time,
                   total_start_time, total_time_diff, sleeptime,
                   influx_messages, filtering, exception, ops, emitted,
                   prev_start_time, cycle_end_time>>
    /\ UNCHANGED window_bytes
    /\ UNCHANGED <<startup_vars, tune_vars>>

\* lines 507, 514: poll(timeout * 1000) ran out with no event
PollTimeout ==
    /\ pc = "poll"
    /\ now + poll_timeout <= MaxTime
    /\ now' = now + poll_timeout
    /\ pc' = "while"
    /\ UNCHANGED <<config, num, count, data_bound, start_time, end_time,
                   elapsed, total_start_time, total_time_diff, sleeptime,
                   influx_messages, filtering, exception, ops, emitted,
                   prev_start_time, cycle_end_time>>
    /\ UNCHANGED window_bytes
    /\ UNCHANGED <<startup_vars, tune_vars>>

\* lines 507, 514-518: poll() reports POLLIN or POLLPRI after d ticks; the
\* buffer is read, counted and the time taken
PollReadable ==
    /\ pc = "poll"
    /\ \E d \in 0..poll_timeout, len \in 1..MaxChunk :
        /\ now + d <= MaxTime
        /\ count + len <= MaxCount
        /\ now' = now + d
        /\ count' = count + len
        /\ window_bytes' = window_bytes + len
        /\ end_time' = now + d
    /\ data_bound' = TRUE
    /\ pc' = "while"
    /\ UNCHANGED <<config, num, start_time, elapsed, total_start_time,
                   total_time_diff, sleeptime, influx_messages, filtering,
                   exception, ops, emitted, prev_start_time, cycle_end_time>>
    /\ UNCHANGED <<startup_vars, tune_vars>>

\* lines 507, 514-515: poll() reports an event that is neither POLLIN nor
\* POLLPRI (POLLERR, POLLHUP): nothing is read
PollOtherEvent ==
    /\ pc = "poll"
    /\ \E d \in 0..poll_timeout :
        /\ now + d <= MaxTime
        /\ now' = now + d
    /\ pc' = "while"
    /\ UNCHANGED <<config, num, count, data_bound, start_time, end_time,
                   elapsed, total_start_time, total_time_diff, sleeptime,
                   influx_messages, filtering, exception, ops, emitted,
                   prev_start_time, cycle_end_time>>
    /\ UNCHANGED window_bytes
    /\ UNCHANGED <<startup_vars, tune_vars>>

\* lines 508-512, 520: poll() raises IOError; stop_demuxer() is called, its
\* result is dropped, the loop is left and the final time is taken
PollInterrupted ==
    /\ pc = "poll"
    /\ \E d \in 0..poll_timeout, dmx_stop \in IoctlOutcomes :
        /\ now + d <= MaxTime
        /\ now' = now + d
        /\ ops' = Append(ops, Op("stop_demuxer", 511, dmx_stop = "zero"))
        /\ filtering' = IF dmx_stop = "zero" THEN FALSE ELSE filtering
        /\ IF dmx_stop = "OSError"
           THEN /\ Raise("OSError")
                /\ UNCHANGED elapsed
           ELSE /\ pc' = "stop_demuxer"
                /\ elapsed' = now + d - start_time
                /\ UNCHANGED exception
    /\ UNCHANGED <<config, num, count, data_bound, start_time, end_time,
                   total_start_time, total_time_diff, sleeptime,
                   influx_messages, emitted, prev_start_time, cycle_end_time>>
    /\ UNCHANGED window_bytes
    /\ UNCHANGED <<startup_vars, tune_vars>>

\* lines 523-524 and 416-422: stop_demuxer(dmxfd) after the loop
StopDemuxer ==
    /\ pc = "stop_demuxer"
    /\ \E dmx_stop \in IoctlOutcomes :
        /\ ops' = Append(ops, Op("stop_demuxer", 523, dmx_stop = "zero"))
        /\ filtering' = IF dmx_stop = "zero" THEN FALSE ELSE filtering
        /\ IF dmx_stop = "OSError"
           THEN Raise("OSError")
           ELSE /\ pc' = AfterStopDemuxer(stop_demuxer(dmx_stop))
                /\ UNCHANGED exception
    /\ UNCHANGED <<config, now, num, count, data_bound, start_time, end_time,
                   elapsed, total_start_time, total_time_diff, sleeptime,
                   influx_messages, emitted, prev_start_time, cycle_end_time>>
    /\ UNCHANGED window_bytes
    /\ UNCHANGED <<startup_vars, tune_vars>>

\* lines 527-556: the metric point, kept as its channel and the byte count
\* its speed is computed from.  Line 540 divides by elapsed; line 552
\* evaluates len(data) for the debug record whatever the log level
AppendPoint ==
    /\ pc = "append"
    /\ IF elapsed = 0
       THEN /\ Raise("ZeroDivisionError")
            /\ UNCHANGED influx_messages
       ELSE /\ influx_messages' = Append(influx_messages,
                    [num |-> num, count |-> count])
            /\ IF ~data_bound
               THEN Raise("UnboundLocalError")
               ELSE /\ pc' = "for"
                    /\ UNCHANGED exception
    /\ UNCHANGED <<config, now, num, count, data_bound, start_time, end_time,
                   elapsed, total_start_time, total_time_diff, sleeptime,
                   filtering, ops, emitted, prev_start_time, cycle_end_time>>
    /\ UNCHANGED window_bytes
    /\ UNCHANGED <<startup_vars, tune_vars>>

\* lines 558-565: the duration of the channel loop
Aggregate ==
    /\ pc = "aggregate"
    /\ total_time_diff' = now - total_start_time
    /\ pc' = "emit"
    /\ UNCHANGED <<config, now, num, count, data_bound, start_time, end_time,
                   elapsed, total_start_time, sleeptime, influx_messages,
                   filtering, exception, ops, emitted, prev_start_time,
                   cycle_end_time>>
    /\ UNCHANGED window_bytes
    /\ UNCHANGED <<startup_vars, tune_vars>>

\* what client.write_points() can do
WriteOutcomes == {"returns", "raises"}

\* lines 568-575: write_points(influx_messages) takes d ticks; whatever it
\* raises is caught and logged, and the batch is not kept
Emit ==
    /\ pc = "emit"
    /\ \E d \in 0..MaxEmitTime, write_points \in WriteOutcomes :
        /\ now + d <= MaxTime
        /\ now' = now + d
        /\ cycle_end_time' = now + d
        /\ emitted' = Append(emitted, [points |-> influx_messages,
                                       sent |-> write_points = "returns"])
    /\ pc' = "sleep"
    /\ UNCHANGED <<config, num, count, data_bound, start_time, end_time,
                   elapsed, total_start_time, total_time_diff, sleeptime,
                   influx_messages, filtering, exception, ops,
                   prev_start_time>>
    /\ UNCHANGED window_bytes
    /\ UNCHANGED <<startup_vars, tune_vars>>

\* timedelta.seconds: whole seconds of a non-negative duration, days dropped
timedelta_seconds(ticks) == (ticks \div TicksPerSec) % SecondsPerDay

\* line 577
SleepTime == config.interval - timedelta_seconds(total_time_diff)

\* lines 577-587: sleep for what is left of the interval, if anything
Sleep ==
    /\ pc = "sleep"
    /\ sleeptime' = SleepTime
    /\ IF SleepTime > 0
       THEN /\ now + SleepTime * TicksPerSec <= MaxTime
            /\ now' = now + SleepTime * TicksPerSec
       ELSE UNCHANGED now
    /\ pc' = "cycle_start"
    /\ UNCHANGED <<config, num, count, data_bound, start_time, end_time,
                   elapsed, total_start_time, total_time_diff,
                   influx_messages, filtering, exception, ops, emitted,
                   prev_start_time, cycle_end_time>>
    /\ UNCHANGED window_bytes
    /\ UNCHANGED <<startup_vars, tune_vars>>

Next ==
    \/ CycleStart
    \/ ForNext
    \/ Tune
    \/ StartDemuxer
    \/ While
    \/ PollTimeout
    \/ PollReadable
    \/ PollOtherEvent
    \/ PollInterrupted
    \/ StopDemuxer
    \/ AppendPoint
    \/ Aggregate
    \/ Emit
    \/ Sleep

Spec == Init /\ [][Next]_vars

\* --------------------------------------------------------------- startup
\* exit(status) at a line of the source
Exit(status, line) ==
    /\ Raise("SystemExit")
    /\ sys_exit' = [status |-> status, line |-> line]

\* texts tried for a type=int option and for its environment variable
ArgTexts == {<<"2">>, <<"x">>}
EnvTexts == {<<"1">>, <<"x">>, <<>>}

\* channel lists tried: items of one field, of frequency:modulation, and
\* one of three fields, joined with commas
FreqFields == {<<>>, <<"x">>, <<"1", "1", "4">>}
ModFields == {<<"x">>, <<"6", "4">>, <<"2", "5", "6">>}

ItemInputs ==
    FreqFields
        \cup { join(<<f, m>>, ":") : f \in FreqFields, m \in ModFields }
        \cup { join(<<<<"1", "1", "4">>, <<"6", "4">>, <<"x">>>>, ":") }

SpecInputs(max_items) ==
    UNION { { join(items, ",") : items \in [1..n -> ItemInputs] } :
            n \in 1..max_items }

\* a name is given with one of the texts, or is not given
Choices(name, texts) == {NoneGiven} \cup { name :> t : t \in texts }

\* the command lines and environments tried: one type=int option given,
\* set in the environment, or both, with --frequencies given or not and
\* PYDTM_FREQUENCIES set or not
StartupInputs(o) ==
    { [argv |-> a @@ fa, environ |-> e @@ fe] :
        a \in Choices(o, ArgTexts),
        e \in Choices(EnvVarOf(o), EnvTexts),
        fa \in Choices("frequencies", {<<"x">>}),
        fe \in Choices("PYDTM_FREQUENCIES", SpecInputs(MaxItems)) }

\* the command lines of Init, with nothing in the environment
LoopInputs(c) == [argv |-> ArgvFor(c, Tunable(114, QAM_256)), environ |-> NoEnviron]

\* the state when main() is called
StartupInit ==
    /\ \/ \E o \in IntOptions : \E i \in StartupInputs(o) :
            /\ argv = i.argv
            /\ environ = i.environ
       \/ \E c \in Configurations :
            /\ argv = LoopInputs(c).argv
            /\ environ = LoopInputs(c).environ
    /\ config = Defaults
    /\ pc = "parse_arguments"
    /\ exception = "none"
    /\ LoopVarsInit
    /\ sys_exit = Running
    /\ devices_open = FALSE
    /\ warned = FALSE
    /\ tunable = Tunable(114, QAM_256)
    /\ fe_calls = <<>>

\* line 317, lines 123-223: argparse ends the process with status 2 when a
\* type=int option has no integer
ParseArguments ==
    /\ pc = "parse_arguments"
    /\ IF parse_args_fails
       THEN /\ Exit(2, 223)
            /\ UNCHANGED config
       ELSE /\ config' = parse_args
            /\ pc' = "eval_envvars"
            /\ UNCHANGED <<exception, sys_exit>>
    /\ UNCHANGED <<argv, environ, devices_open, warned, tune_vars, loop_vars>>

\* line 318, lines 233-283
EvalEnvvars ==
    /\ pc = "eval_envvars"
    /\ config' = eval_envvars(config)
    /\ pc' = "frequency_list"
    /\ UNCHANGED <<exception, startup_vars, tune_vars, loop_vars>>

\* line 321: frequency_list(args.frequencies)
FrequencyList ==
    /\ pc = "frequency_list"
    /\ LET list == frequency_list(config.frequencies)
       IN  CASE list.end = "none" ->
                    /\ pc' = "check_step"
                    /\ UNCHANGED <<exception, sys_exit>>
             [] list.end = "exit" -> Exit(1, list.line)
             [] list.end = "ValueError" ->
                    /\ Raise("ValueError")
                    /\ UNCHANGED sys_exit
    /\ UNCHANGED <<config, argv, environ, devices_open, warned, tune_vars,
                   loop_vars>>

\* lines 329-339: the step is checked against the number of channels; the
\* outcome is a warning in the log, and args is returned
CheckStep ==
    /\ pc = "check_step"
    /\ warned' = step_too_short(config.step,
                                frequency_list(config.frequencies).f_list)
    /\ pc' = "connect"
    /\ UNCHANGED <<config, exception, argv, environ, sys_exit, devices_open,
                   tune_vars, loop_vars>>

\* what InfluxDBClient() and switch_database() can do
ConnectOutcomes == {"returns", "raises"}

\* lines 439-446: whatever the connection raises ends in exit(), status 0
Connect ==
    /\ pc = "connect"
    /\ \E connect \in ConnectOutcomes :
        IF connect = "raises"
        THEN Exit(0, 446)
        ELSE /\ pc' = "open"
             /\ UNCHANGED <<exception, sys_exit>>
    /\ UNCHANGED <<config, argv, environ, devices_open, warned, tune_vars,
                   loop_vars>>

\* what open() of the three device files can do
OpenOutcomes == {"returns", "OSError"}

\* lines 449-453: the frontend, the demux and the dvr device are opened
OpenDevices ==
    /\ pc = "open"
    /\ \E open \in OpenOutcomes :
        IF open = "OSError"
        THEN /\ Raise("OSError")
             /\ UNCHANGED devices_open
        ELSE /\ devices_open' = TRUE
             /\ pc' = "set_buffer_size"
             /\ UNCHANGED exception
    /\ UNCHANGED <<config, argv, environ, sys_exit, warned, tune_vars,
                   loop_vars>>

\* lines 455-470: ioctl(dmxfd, DMX_SET_BUFFER_SIZE) != 0 ends in exit(1)
SetBufferSize ==
    /\ pc = "set_buffer_size"
    /\ \E set_buffer_size \in IoctlOutcomes :
        CASE set_buffer_size = "zero" ->
                /\ pc' = "enter_loop"
                /\ UNCHANGED <<exception, sys_exit>>
          [] set_buffer_size = "nonzero" -> Exit(1, 470)
          [] set_buffer_size = "OSError" ->
                /\ Raise("OSError")
                /\ UNCHANGED sys_exit
    /\ UNCHANGED <<config, argv, environ, devices_open, warned, tune_vars,
                   loop_vars>>

\* lines 472-480: the channel list is parsed once more for its length; from
\* here on config holds what the loop reads, frequencies being that length
EnterLoop ==
    /\ pc = "enter_loop"
    /\ config' = [frequencies |-> Len(frequency_list(config.frequencies).f_list),
                  step |-> config.step,
                  interval |-> config.interval,
                  locktime |-> config.locktime]
    /\ pc' = "cycle_start"
    /\ UNCHANGED <<exception, startup_vars, tune_vars, loop_vars>>

StartupNext ==
    \/ ParseArguments
    \/ EvalEnvvars
    \/ FrequencyList
    \/ CheckStep
    \/ Connect
    \/ OpenDevices
    \/ SetBufferSize
    \/ EnterLoop

StartupSpec == StartupInit /\ [][StartupNext]_vars

\* ---------------------------------------------------------------- tune()
\* frequencies in MHz tune() is tried with
TuneFrequencies == {114, 602}

Tunables ==
    { Tunable(f, m) : f \in TuneFrequencies, m \in {QAM_256, QAM_64} }

\* the state when main() calls tune() for the first channel of the first
\* cycle, the channel list being made of one Tunable
TuneInit ==
    /\ config \in Configurations
    /\ tunable \in Tunables
    /\ pc = "tune"
    /\ exception = "none"
    /\ now = 0
    /\ num = 1
    /\ count = 0
    /\ data_bound = FALSE
    /\ start_time = 0
    /\ end_time = 0
    /\ elapsed = 0
    /\ total_start_time = 0
    /\ total_time_diff = 0
    /\ sleeptime = 0
    /\ influx_messages = <<>>
    /\ filtering = FALSE
    /\ ops = <<>>
    /\ emitted = <<>>
    /\ prev_start_time = -1
    /\ cycle_end_time = -1
    /\ window_bytes = 0
    /\ argv = ArgvFor(config, tunable)
    /\ environ = NoEnviron
    /\ sys_exit = Running
    /\ devices_open = TRUE
    /\ warned = (config.step < config.frequencies)
    /\ fe_calls = <<>>

\* tune() with a record of its ioctls
TuneRecorded ==
    /\ pc = "tune"
    /\ \E set_property \in IoctlOutcomes, read_status \in IoctlOutcomes,
          status \in FeStatusValues :
        /\ TuneCall(set_property, read_status, status)
        /\ fe_calls' = tune_calls(tunable, set_property, read_status, status)

TuneNext == TuneRecorded

TuneSpec == TuneInit /\ [][TuneNext]_vars

\* ---------------------------------------------------------------- claims
\* positions of the log
Ops == DOMAIN ops

IsOp(k, name) == ops[k].op = name

\* the channels with a point in a batch
Channels(batch) == { batch[m].num : m \in DOMAIN batch }

\* every batch of this cycle, built or handed over, has points only for
\* channels before i, and at most i - 1 of them
OnlyBefore(i) ==
    /\ Channels(influx_messages) \subseteq 1..(i - 1)
    /\ Len(influx_messages) <= i - 1
    /\ \A b \in DOMAIN emitted :
        /\ Channels(emitted[b].points) \subseteq 1..(i - 1)
        /\ Len(emitted[b].points) <= i - 1

\* C1: when tune() fails on channel i, it is the last device operation of
\* the cycle (no tune, filter start, metering or filter stop follows), and
\* the batch built and handed to the emitter holds points only for channels
\* before i, at most i - 1 of them.
C1_TuneFailureAbortsCycle ==
    \A k \in Ops :
        LET e == ops[k] IN
        (e.op = "tune" /\ ~e.ok) => (k = Len(ops) /\ OnlyBefore(e.num))

\* C1 witness: tune failed on channel 2 and the batch handed over holds
\* one point
C1_Witness ==
    /\ \E k \in Ops : IsOp(k, "tune") /\ ~ops[k].ok /\ ops[k].num = 2
    /\ Len(emitted) = 1
    /\ Len(emitted[1].points) = 1

\* C2: start_demuxer is never issued while a filter started earlier is
\* still running, that is, has not been stopped successfully since.
C2_OneFilterAtATime == pc = "start_demuxer" => ~filtering

\* the operation logged just before position k is `name`, succeeded, and was
\* on the same channel
FollowsGood(k, name) ==
    /\ k > 1
    /\ ops[k - 1].op = name
    /\ ops[k - 1].ok
    /\ ops[k - 1].num = ops[k].num

\* C3: start_demuxer for a channel directly follows a successful tune() of
\* the same channel, metering directly follows a successful start_demuxer
\* of the same channel, and a failed start_demuxer ends the cycle's device
\* operations like a failed tune.
C3_TuneThenFilterThenMeter ==
    \A k \in Ops :
        LET e == ops[k] IN
        CASE e.op = "start_demuxer" ->
                /\ FollowsGood(k, "tune")
                /\ ~e.ok => (k = Len(ops) /\ OnlyBefore(e.num))
          [] e.op = "meter" -> FollowsGood(k, "start_demuxer")
          [] OTHER -> TRUE

\* C3 witness: start_demuxer failed on channel 2 after channel 1 was
\* metered, and the cycle went on to emit
C3_Witness ==
    /\ \E k \in Ops : IsOp(k, "start_demuxer") /\ ~ops[k].ok /\ ops[k].num = 2
    /\ \E k \in Ops : IsOp(k, "meter") /\ ops[k].num = 1
    /\ Len(emitted) = 1

\* the stop_demuxer after the meter loop (line 523)
IsFinalStop(k) == IsOp(k, "stop_demuxer") /\ ops[k].line = 523

\* C4: once a channel's filter was started, either its window is still
\* open (or the process ended in it), or the stop_demuxer after the loop
\* was attempted for it; so it is attempted before the next tune and before
\* the emission.  When that stop fails it is the cycle's last device
\* operation and no point exists for its channel.
C4_StopAfterMetering ==
    \A k \in Ops :
        LET e == ops[k] IN
        CASE e.op = "start_demuxer" /\ e.ok ->
                \/ \E j \in (k + 1)..Len(ops) :
                      IsFinalStop(j) /\ ops[j].num = e.num
                \/ /\ num = e.num
                   /\ pc \in {"while", "poll", "stop_demuxer", "terminated"}
                   /\ emitted = <<>>
          [] e.op = "stop_demuxer" /\ e.line = 523 /\ ~e.ok ->
                k = Len(ops) /\ OnlyBefore(e.num)
          [] OTHER -> TRUE

\* C4 witness: the poll was interrupted, the stop after the loop was
\* attempted all the same and failed, and the cycle went on to emit
C4_Witness ==
    /\ \E k \in Ops :
          /\ IsFinalStop(k) /\ ~ops[k].ok
          /\ k > 1 /\ IsOp(k - 1, "stop_demuxer") /\ ops[k - 1].line = 511
    /\ Len(emitted) = 1

\* C5: the read loop is left once the time since the window's start has
\* reached the budget: poll() is not entered again at or after the deadline.
C5_WindowEndsAtBudget == pc = "poll" => (now - start_time) < timeout

\* C6: at loop exit, elapsed exceeds the budget by at most one poll, taken
\* at its longest (poll_timeout).
C6_ElapsedWithinBudget ==
    pc = "stop_demuxer" => elapsed <= timeout + poll_timeout

\* C7: no error inside a scan cycle terminates the process.
C7_NoErrorIsFatal == pc # "terminated"

\* C8: the rate computation never divides by zero: a zero elapsed time
\* does not raise.
C8_NoDivisionByZero ==
    /\ exception # "ZeroDivisionError"
    /\ pc = "append" => elapsed # 0

\* what main() slept after the cycle, in seconds
Slept == IF sleeptime > 0 THEN sleeptime ELSE 0

\* C9: after a cycle, the sleep is interval - duration exactly when the
\* cycle's duration is below the interval, and there is no sleep otherwise.
C9_SleepIsIntervalMinusDuration ==
    (pc = "cycle_start" /\ total_start_time # -1) =>
        IF total_time_diff < config.interval * TicksPerSec
        THEN Slept * TicksPerSec = config.interval * TicksPerSec - total_time_diff
        ELSE Slept = 0

\* C10: when the previous cycle, scanning and emission, took less than the
\* interval, this cycle started exactly one interval after it.
C10_FixedCadence ==
    (pc = "for" /\ num = 0 /\ prev_start_time # -1
       /\ cycle_end_time - prev_start_time < config.interval * TicksPerSec) =>
        total_start_time - prev_start_time = config.interval * TicksPerSec

\* the channel went through all four steps in this cycle: tune(),
\* start_demuxer, metering, and the stop_demuxer after the loop, the three
\* device calls with success
Measured(c) ==
    /\ \E k \in Ops : IsOp(k, "tune") /\ ops[k].ok /\ ops[k].num = c
    /\ \E k \in Ops : IsOp(k, "start_demuxer") /\ ops[k].ok /\ ops[k].num = c
    /\ \E k \in Ops : IsOp(k, "meter") /\ ops[k].num = c
    /\ \E k \in Ops : IsFinalStop(k) /\ ops[k].ok /\ ops[k].num = c

\* the points of a batch that are for channel c
PointsOf(batch, c) == { m \in DOMAIN batch : batch[m].num = c }

\* C11: write_points() is called at most once in a cycle, never before the
\* channel loop has ended, and exactly once when the sleep is reached; the
\* batch handed over holds exactly one point for each channel measured in
\* this cycle and none for any other, so nothing of an earlier cycle's
\* batch, sent or not, is in it.
C11_OneEmissionPerCycle ==
    /\ Len(emitted) <= 1
    /\ pc \in {"for", "tune", "start_demuxer", "while", "poll",
                "stop_demuxer", "append", "aggregate", "emit"} => emitted = <<>>
    /\ (pc = "sleep" \/ (pc = "cycle_start" /\ total_start_time # -1)) =>
            Len(emitted) = 1
    /\ \A b \in DOMAIN emitted :
          \A c \in 1..frequencies_count :
              Cardinality(PointsOf(emitted[b].points, c)) =
                  IF Measured(c) THEN 1 ELSE 0
    /\ \A b \in DOMAIN emitted :
          Channels(emitted[b].points) \subseteq 1..frequencies_count

\* C11 witness: in a cycle after the first, of two channels the first was
\* measured and the second was not, and the emission of the batch of one
\* point failed
C11_Witness ==
    /\ prev_start_time # -1
    /\ frequencies_count = 2
    /\ Measured(1) /\ ~Measured(2)
    /\ Len(emitted) = 1
    /\ ~emitted[1].sent
    /\ Len(emitted[1].points) = 1

\* the poll of channel c was interrupted in this cycle (the stop_demuxer of
\* line 511 is only issued then)
Interrupted(c) ==
    \E k \in Ops : IsOp(k, "stop_demuxer") /\ ops[k].line = 511 /\ ops[k].num = c

\* C12: a poll interruption does not end the process: when the process ends
\* in a channel whose poll was interrupted, it is because a stop_demuxer
\* ioctl itself raised, not because of the interruption.
C12_InterruptionIsLocal ==
    (pc = "terminated" /\ Interrupted(num)) => exception = "OSError"

\* C16: the timeout given to poll() is what is left of the window's budget:
\* the budget minus the time spent since the window's start.
C16_PollTimeoutIsRemainingBudget ==
    pc = "poll" => poll_timeout = timeout - (now - start_time)

\* what C17 asks of one step
C17_Step ==
    /\ pc' = "tune" => count' = 0
    /\ pc \in {"tune", "start_demuxer", "while", "poll"} => count' >= count
    /\ influx_messages' # influx_messages =>
          \/ influx_messages' = <<>>
          \/ influx_messages' = Append(influx_messages,
                                       [num |-> num, count |-> window_bytes])

\* C17: every channel attempt begins with count = 0; from tune() to the end
\* of the meter loop count never decreases; and the count of a point is
\* the bytes read in the window of that point's channel in this cycle,
\* nothing read for another channel or in another cycle.
C17_CountIsPerWindow ==
    /\ [](pc \in {"tune", "start_demuxer", "while", "poll", "stop_demuxer",
                  "append"} => count = window_bytes)
    /\ [][C17_Step]_vars

\* C17 witness: the second channel's point is appended after bytes were
\* read in both windows
C17_Witness ==
    /\ Len(influx_messages) = 2
    /\ influx_messages[1].count > 0
    /\ influx_messages[2].count > 0

\* the batch holds the points of channels 1..k of the list, in list order,
\* for some k from 0 to the number of channels
IsPrefixOfChannels(batch) ==
    /\ Len(batch) <= frequencies_count
    /\ \A m \in DOMAIN batch : batch[m].num = m

\* C18: the batch, while it is built and when it is handed to
\* write_points(), is an in-order prefix of the channel list: its m-th
\* point is for channel m, so no channel is there twice and none without
\* its predecessor.
C18_BatchIsPrefix ==
    /\ IsPrefixOfChannels(influx_messages)
    /\ \A b \in DOMAIN emitted : IsPrefixOfChannels(emitted[b].points)

\* C18 witness: a batch with the points of both channels of a list of two
\* was handed to write_points()
C18_Witness ==
    /\ frequencies_count = 2
    /\ Len(emitted) = 1
    /\ Len(emitted[1].points) = 2

\* C19: between two start_demuxer there is at most one stop_demuxer: no
\* two stop_demuxer of a cycle are for the same channel.
C19_AtMostOneStopPerStart ==
    \A j \in Ops : \A k \in Ops :
        (j < k /\ IsOp(j, "stop_demuxer") /\ IsOp(k, "stop_demuxer")) =>
            ops[j].num # ops[k].num

\* C13: the scan loop (line 480) is entered only with a budget of at least
\* one second per channel.
C13_ShortBudgetRejected == pc = "cycle_start" => timeout >= TicksPerSec

\* a decimal numeral
IsNumeral(text) ==
    /\ text # <<>>
    /\ \A i \in DOMAIN text :
          text[i] \in {"0", "1", "2", "3", "4", "5", "6", "7", "8", "9"}

\* an item of a channel spec: frequency, or frequency:modulation with the
\* modulation 256 or 64
ValidItem(item) ==
    \/ IsNumeral(item)
    \/ \E k \in DOMAIN item :
          /\ item[k] = ":"
          /\ IsNumeral(SubSeq(item, 1, k - 1))
          /\ SubSeq(item, k + 1, Len(item)) \in {<<"2", "5", "6">>, <<"6", "4">>}

\* a channel spec: valid items separated by commas
ValidSpec(text) ==
    LET cuts == {0, Len(text) + 1} \cup { i \in DOMAIN text : text[i] = "," }
    IN  \A a \in cuts : \A b \in cuts :
            (a < b /\ \A c \in cuts : ~(a < c /\ c < b)) =>
                ValidItem(SubSeq(text, a + 1, b - 1))

\* the channel spec in force: PYDTM_FREQUENCIES, else --frequencies, else
\* the default
EffectiveSpec ==
    IF "PYDTM_FREQUENCIES" \in DOMAIN environ THEN environ["PYDTM_FREQUENCIES"]
    ELSE IF "frequencies" \in DOMAIN argv THEN argv["frequencies"]
    ELSE Defaults["frequencies"]

\* an integer option is given on the command line with no numeral
BadArgvInt == \E o \in IntOptions \cap DOMAIN argv : ~IsNumeral(argv[o])

\* the environment variable of an integer option is set to no numeral
BadEnvInt ==
    \E o \in IntOptions :
        EnvVarOf(o) \in DOMAIN environ /\ ~IsNumeral(environ[EnvVarOf(o)])

\* the exit status of an ended process: that of exit(), or 1 after an
\* exception nothing caught
ExitStatus == IF sys_exit.line # 0 THEN sys_exit.status ELSE 1

\* the process has not got past build_configuration(), or it has ended with
\* a status that is not 0, and no device was opened
FatalAtStartup ==
    /\ ~devices_open
    /\ \/ pc \in {"parse_arguments", "eval_envvars", "frequency_list"}
       \/ pc = "terminated" /\ ExitStatus # 0

\* C14: with an invalid channel spec, or with no numeral for adapter,
\* tuner, step, interval or lock time on the command line or in the
\* environment, the process never gets past build_configuration(): it
\* ends there with a non-zero status and no device is opened.
C14_BadValueIsFatal ==
    (BadArgvInt \/ BadEnvInt \/ ~ValidSpec(EffectiveSpec)) => FatalAtStartup

\* the value of an integer option: the numeral of its environment variable,
\* else the one of the command line, else the default
ExpectedInt(o) ==
    IF EnvVarOf(o) \in DOMAIN environ /\ IsNumeral(environ[EnvVarOf(o)])
    THEN int(environ[EnvVarOf(o)])
    ELSE IF o \in DOMAIN argv THEN int(argv[o]) ELSE Defaults[o]

\* build_configuration() ended the process: parse_args(), or
\* frequency_list() by exit(1) or by the ValueError of line 293
EndedInConfiguration ==
    /\ pc = "terminated"
    /\ exception = "ValueError" \/ sys_exit.line \in {223, 299, 310}

\* C14 as the code has it: an invalid channel spec, or no numeral for an
\* integer option on the command line, is fatal at startup as above; no
\* numeral in the environment variable of an integer option is not: the
\* value of the command line or the default stays, and build_configuration()
\* ends the process for the first two reasons only.
C14_BadValueIsFatalUnlessEnv ==
    /\ (BadArgvInt \/ ~ValidSpec(EffectiveSpec)) => FatalAtStartup
    /\ pc \in {"frequency_list", "check_step", "connect", "open",
                "set_buffer_size", "enter_loop"} =>
            \A o \in IntOptions : config[o] = ExpectedInt(o)
    /\ EndedInConfiguration => (BadArgvInt \/ ~ValidSpec(EffectiveSpec))

\* C14 witness: PYDTM_STEP is set to no numeral, --step 2 is given, the
\* devices are open and the step is 2
C14_Witness ==
    /\ "PYDTM_STEP" \in DOMAIN environ
    /\ environ["PYDTM_STEP"] = <<"x">>
    /\ "step" \in DOMAIN argv
    /\ argv["step"] = <<"2">>
    /\ devices_open
    /\ pc = "enter_loop"
    /\ config["step"] = 2

\* the records of fe_calls that are for the ioctl `request`
CallsOf(request) == { k \in DOMAIN fe_calls : fe_calls[k].request = request }

\* tune() returned 0: it is logged as succeeded
TuneReturnedSuccess == ops[Len(ops)].op = "tune" /\ ops[Len(ops)].ok

\* C15: once tune() is over, FE_SET_PROPERTY was issued once, first, with
\* the seven commands delivery system, modulation, symbol rate, inversion,
\* inner FEC, frequency, tune in this order; FE_READ_STATUS was issued once
\* if the batch was accepted and not at all if it was not, and no sooner
\* than the lock time after the batch; and tune() returned 0 exactly when
\* the batch was accepted, the status was read and has the bit 0x10.
C15_TuneProtocol ==
    pc # "tune" =>
        /\ Cardinality(CallsOf("FE_SET_PROPERTY")) = 1
        /\ fe_calls[1].request = "FE_SET_PROPERTY"
        /\ [i \in DOMAIN fe_calls[1].props |-> fe_calls[1].props[i].cmd] =
              <<DTV_DELIVERY_SYSTEM, DTV_MODULATION, DTV_SYMBOL_RATE,
                DTV_INVERSION, DTV_INNER_FEC, DTV_FREQUENCY, DTV_TUNE>>
        /\ Cardinality(CallsOf("FE_READ_STATUS")) =
              IF fe_calls[1].result = "zero" THEN 1 ELSE 0
        /\ \A k \in CallsOf("FE_READ_STATUS") :
              fe_calls[k].at >= fe_calls[1].at + config.locktime * TicksPerSec
        /\ TuneReturnedSuccess <=>
              /\ fe_calls[1].result = "zero"
              /\ \E k \in CallsOf("FE_READ_STATUS") :
                    /\ fe_calls[k].result = "zero"
                    /\ (fe_calls[k].status \div 16) % 2 = 1

\* C15 witness: tune() to a QAM 64 channel returned 0 after a lock time of
\* a second, the status read having all bits
C15_Witness ==
    /\ pc = "start_demuxer"
    /\ tunable.modulation = QAM_64
    /\ config.locktime = 1
    /\ Len(fe_calls) = 2
    /\ fe_calls[2].status = 31

====
